---------------------------- MODULE Spec2Model ----------------------------
(***************************************************************************)
(* A model of the GRDNS front end (src/main.go): the request handler       *)
(* DNSServer.handleDNSRequest, the two listeners launched by               *)
(* DNSServer.Start, DNSServer.Stop and the control loop of main.           *)
(*                                                                         *)
(* Two specifications share the variables and the actions:                 *)
(*   SpecHandler  handleDNSRequest invoked directly on one request at a    *)
(*                time, over the whole bounded space of inbound messages   *)
(*                and engine outcomes;                                     *)
(*   Spec         the whole process: main, Start, both listener tasks,     *)
(*                Stop, and requests dispatched concurrently by the        *)
(*                listeners.                                               *)
(***************************************************************************)
EXTENDS Naturals, Sequences, FiniteSets

VARIABLES
    req,        \* per handler invocation: its locals and what it did
    mainpc,     \* position of main
    server,     \* DNSServer.server: "nil" or "udp"
    listener,   \* per transport: the background task and dns.Server.started
    portFree,   \* per transport: whether the address can be bound
    startErr,   \* the value Start returned
    stopErr,    \* the value Stop returned
    signalled,  \* a termination signal has been delivered to sigChan
    logged,     \* the process-level log events recorded so far
    out,        \* per writer: the replies delivered to it
    arrived,    \* the running handler invocations, in order of arrival
    gens        \* the listener pairs of earlier Start calls, oldest first

vars == <<req, mainpc, server, listener, portFree, startErr, stopErr,
          signalled, logged, out, arrived, gens>>

\* what a handler invocation may change, and the rest
reqVars == <<req, out, arrived>>
lifeVars == <<mainpc, server, listener, portFree, startErr, stopErr,
              signalled, logged, gens>>

----------------------------------------------------------------------------
(* Bounds of the model *)

NReq == 2
MaxStarts == 2
MaxQuestions == 2
MaxId == 1

----------------------------------------------------------------------------
(* Protocol constants used by the handler *)

RcodeSuccess == 0
RcodeFormatError == 1
RcodeServerFailure == 2
RcodeServFail == 2
RcodeNameError == 3

OpcodeQuery == 0
\* the opcodes of inbound messages: QUERY and NOTIFY
Opcodes == {0, 4}

NoErr == "nil"
Errors == {"ErrNoResult", "ErrNoData", "ErrInvalidQuery",
           "ErrDNSSECValidationFailed", "ErrOther"}

Nets == {"udp", "tcp"}
Slots == 1 .. NReq

----------------------------------------------------------------------------
(* Messages *)

Questions == {[Name |-> "a.test.", Qtype |-> 1], [Name |-> "b.test.", Qtype |-> 28]}

RECURSIVE SeqsUpTo(_, _)
SeqsUpTo(S, n) ==
    IF n = 0 THEN {<<>>}
    ELSE LET shorter == SeqsUpTo(S, n - 1)
         IN  shorter \cup {Append(s, x) : s \in {t \in shorter : Len(t) = n - 1}, x \in S}

\* new(dns.Msg): the zero value
NewMsg ==
    [Id |-> 0, Response |-> FALSE, Opcode |-> 0,
     RecursionDesired |-> FALSE, RecursionAvailable |-> FALSE,
     AuthenticatedData |-> FALSE, CheckingDisabled |-> FALSE,
     Rcode |-> 0, Compress |-> FALSE,
     Question |-> <<>>, Answer |-> <<>>, Ns |-> <<>>, Extra |-> <<>>]

\* the inbound messages r handed to the handler
Queries ==
    {[NewMsg EXCEPT !.Id = id, !.Opcode = op, !.RecursionDesired = TRUE,
                    !.CheckingDisabled = cd, !.Question = qs] :
        id \in 1 .. MaxId, op \in Opcodes,
        cd \in BOOLEAN,
        qs \in SeqsUpTo(Questions, MaxQuestions)}

NilResponse == [isNil |-> TRUE]

\* what resolver.Query may return as its first result
Responses ==
    {NilResponse} \cup
    {[isNil |-> FALSE, Answer |-> an, Ns |-> ns, Extra |-> ex, Rcode |-> rc,
      AuthenticatedData |-> ad, CheckingDisabled |-> cd] :
        an \in {<<>>, <<"rrA">>}, ns \in {<<>>, <<"rrN">>},
        ex \in {<<>>, <<"rrE">>}, rc \in {RcodeSuccess, RcodeNameError},
        ad \in BOOLEAN, cd \in BOOLEAN}

\* (response, err) pairs of resolver.Query
Outcomes == [response : Responses, err : Errors \cup {NoErr}]

\* the messages the listeners hand to the handler in the process specification
WireQueries ==
    {q \in Queries : /\ q.Id = 1
                     /\ q.Opcode = OpcodeQuery
                     /\ q.RecursionDesired
                     /\ ~q.CheckingDisabled
                     /\ q.Question = <<[Name |-> "a.test.", Qtype |-> 1]>>}

\* the engine outcomes drawn in the process specification
WireOutcomes ==
    {o \in Outcomes :
        \/ o.response = NilResponse /\ o.err = "ErrNoResult"
        \/ /\ o.err = NoErr
           /\ o.response = [isNil |-> FALSE, Answer |-> <<"rrA">>, Ns |-> <<>>,
                            Extra |-> <<>>, Rcode |-> RcodeSuccess,
                            AuthenticatedData |-> FALSE, CheckingDisabled |-> FALSE]}

----------------------------------------------------------------------------
(* The message operations the handler calls *)

\* SetReply as a full re-initialisation of the message
SetReplyFresh(dns, request) ==
    LET base == [NewMsg EXCEPT !.Id = request.Id, !.Response = TRUE,
                               !.Opcode = request.Opcode,
                               !.RecursionDesired = request.RecursionDesired,
                               !.CheckingDisabled = request.CheckingDisabled]
    IN  IF Len(request.Question) > 0
        THEN [base EXCEPT !.Question = <<request.Question[1]>>]
        ELSE base

\* SetReply that leaves the transaction identifier alone
SetReplyNoId(dns, request) ==
    LET hdr == [dns EXCEPT !.Response = TRUE,
                           !.Opcode = request.Opcode,
                           !.Rcode = RcodeSuccess]
    IN  IF Len(request.Question) > 0
        THEN [hdr EXCEPT !.Question = <<request.Question[1]>>]
        ELSE hdr

\* dns.Msg.SetReply: header fields from the request, Rcode reset, first question
SetReply(dns, request) ==
    LET hdr == [dns EXCEPT !.Id = request.Id,
                           !.Response = TRUE,
                           !.Opcode = request.Opcode,
                           !.Rcode = RcodeSuccess]
        flg == IF request.Opcode = OpcodeQuery
               THEN [hdr EXCEPT !.RecursionDesired = request.RecursionDesired,
                                !.CheckingDisabled = request.CheckingDisabled]
               ELSE hdr
    IN  IF Len(request.Question) > 0
        THEN [flg EXCEPT !.Question = <<request.Question[1]>>]
        ELSE flg

\* dns.Msg.SetRcode: SetReply again, then the response code
SetRcode(dns, request, rcode) ==
    [SetReply(dns, request) EXCEPT !.Rcode = rcode]

----------------------------------------------------------------------------
(* handleDNSRequest, piece by piece *)

\* lines 37-40
InitialReply(r) ==
    [SetReply(NewMsg, r) EXCEPT !.RecursionAvailable = TRUE, !.Compress = TRUE]

\* the zero-question reply with the wrong response code
ZeroQuestionReplyServFail(reply, r) == SetRcode(reply, r, RcodeServerFailure)

\* line 44
ZeroQuestionReply(reply, r) == SetRcode(reply, r, RcodeFormatError)

\* the last question instead of the first
LastQuestion(r) == r.Question[Len(r.Question)]

\* lines 50-52
FirstQuestion(r) == r.Question[1]

\* the switch without its ErrNoData case
ErrorRcodeNoDataMissing(err) ==
    CASE err = "ErrNoResult" -> RcodeNameError
      [] err = "ErrInvalidQuery" -> RcodeFormatError
      [] err = "ErrDNSSECValidationFailed" -> RcodeServFail
      [] OTHER -> RcodeServerFailure

\* the switch of lines 63-72
ErrorRcode(err) ==
    CASE err \in {"ErrNoResult", "ErrNoData"} -> RcodeNameError
      [] err = "ErrInvalidQuery" -> RcodeFormatError
      [] err = "ErrDNSSECValidationFailed" -> RcodeServFail
      [] OTHER -> RcodeServerFailure

\* the success-path copy without the checking-disabled flag
CopyResponseKeepCD(reply, response) ==
    IF response = NilResponse
    THEN reply
    ELSE [reply EXCEPT !.Answer = response.Answer,
                       !.Ns = response.Ns,
                       !.Extra = response.Extra,
                       !.Rcode = response.Rcode,
                       !.AuthenticatedData = response.AuthenticatedData]

\* a nil outcome treated as an empty outcome
CopyResponseNilAsEmpty(reply, response) ==
    IF response = NilResponse
    THEN [reply EXCEPT !.Answer = <<>>, !.Ns = <<>>, !.Extra = <<>>,
                       !.Rcode = RcodeSuccess,
                       !.AuthenticatedData = FALSE,
                       !.CheckingDisabled = FALSE]
    ELSE [reply EXCEPT !.Answer = response.Answer,
                       !.Ns = response.Ns,
                       !.Extra = response.Extra,
                       !.Rcode = response.Rcode,
                       !.AuthenticatedData = response.AuthenticatedData,
                       !.CheckingDisabled = response.CheckingDisabled]

\* lines 79-88: the reply on the success path
CopyResponse(reply, response) ==
    IF response = NilResponse
    THEN reply
    ELSE [reply EXCEPT !.Answer = response.Answer,
                       !.Ns = response.Ns,
                       !.Extra = response.Extra,
                       !.Rcode = response.Rcode,
                       !.AuthenticatedData = response.AuthenticatedData,
                       !.CheckingDisabled = response.CheckingDisabled]

\* the error path with the engine's sections copied before the error check
ErrorReplyWithData(reply, r, response, err) ==
    SetRcode(CopyResponse(reply, response), r, ErrorRcode(err))

\* lines 59-72: the reply on the error path
ErrorReply(reply, r, response, err) == SetRcode(reply, r, ErrorRcode(err))

\* lines 57-91: the message handed to w.WriteMsg once the engine has returned
FinalReply(reply, r, response, err) ==
    IF err # NoErr
    THEN ErrorReply(reply, r, response, err)
    ELSE CopyResponse(reply, response)

\* a handler invocation that is not running
IdleReq ==
    [pc |-> "idle", via |-> "none", r |-> NewMsg, qname |-> "", qtype |-> 0,
     calls |-> 0, response |-> NilResponse, err |-> NoErr, reply |-> NewMsg,
     writes |-> 0, werr |-> FALSE, wlog |-> FALSE, nlog |-> 0]

\* every invocation writing to the first writer
WriterOfShared(i) == 1

\* w: the writer handed to invocation i (lines 35, 45, 74, 91)
WriterOf(i) == i

\* w.WriteMsg(reply): the reply reaches the writer unless the write fails
WriteMsg(o, w, reply, wfail) ==
    IF wfail THEN o ELSE [o EXCEPT ![w] = Append(@, reply)]

\* a second write after the error path (the return of line 75 missing)
WriteAttemptsFallThrough(err) == IF err # NoErr THEN 2 ELSE 1

\* lines 74 and 91: the write attempts once the engine has returned
WriteAttempts(err) == 1

\* only the write failure is logged (line 60 missing)
EventsOnFinishNoErrorLog(err, wfail) == IF err = NoErr /\ wfail THEN 1 ELSE 0

\* lines 60 and 92: the events logged once the engine has returned
EventsOnFinish(err, wfail) == IF err # NoErr \/ wfail THEN 1 ELSE 0

\* the invocations that arrived before i and still wait for the engine
EarlierWaiting(i) ==
    \E k \in 1 .. Len(arrived) :
        /\ \E m \in (k + 1) .. Len(arrived) : arrived[m] = i
        /\ req[arrived[k]].pc = "querying"

\* the engine serving one call at a time, in order of arrival
AwaitingEngineInOrder(i) == req[i].pc = "querying" /\ ~EarlierWaiting(i)

\* line 57: invocation i is inside resolver.Query
AwaitingEngine(i) == req[i].pc = "querying"

\* lines 35-57: from entry to the zero-question reply or to the engine call
HandleBegin(i, via, r) ==
    /\ mainpc # "exited"
    /\ req[i].pc = "idle"
    /\ arrived' = Append(arrived, i)
    /\ LET reply == InitialReply(r)
       IN  IF Len(r.Question) = 0
           THEN \E wfail \in BOOLEAN :
                  /\ req' = [req EXCEPT ![i] =
                            [IdleReq EXCEPT !.pc = "done", !.via = via, !.r = r,
                                            !.reply = ZeroQuestionReply(reply, r),
                                            !.writes = 1, !.werr = wfail]]
                  /\ out' = WriteMsg(out, WriterOf(i), ZeroQuestionReply(reply, r), wfail)
           ELSE /\ req' = [req EXCEPT ![i] =
                            [IdleReq EXCEPT !.pc = "querying", !.via = via, !.r = r,
                                            !.reply = reply,
                                            !.qname = FirstQuestion(r).Name,
                                            !.qtype = FirstQuestion(r).Qtype,
                                            !.calls = 1, !.nlog = 1]]
                /\ UNCHANGED out

\* lines 57-94: resolver.Query returns o; the reply is built and written
HandleFinish(i, o, wfail) ==
    /\ mainpc # "exited"
    /\ AwaitingEngine(i)
    /\ LET reply == FinalReply(req[i].reply, req[i].r, o.response, o.err)
       IN  /\ req' = [req EXCEPT ![i] =
                        [@ EXCEPT !.pc = "done",
                                  !.response = o.response,
                                  !.err = o.err,
                                  !.reply = reply,
                                  !.writes = @ + WriteAttempts(o.err),
                                  !.werr = wfail,
                                  !.wlog = (o.err = NoErr /\ wfail),
                                  !.nlog = @ + EventsOnFinish(o.err, wfail)]]
           /\ out' = WriteMsg(out, WriterOf(i), reply, wfail)
    /\ UNCHANGED <<arrived, lifeVars>>

\* the sequence s without its entries equal to i
RECURSIVE Without(_, _)
Without(s, i) ==
    IF s = <<>> THEN <<>>
    ELSE IF Head(s) = i THEN Without(Tail(s), i)
    ELSE <<Head(s)>> \o Without(Tail(s), i)

\* line 94 (and the returns of lines 46 and 75): the invocation is over
HandleReturn(i) ==
    /\ mainpc # "exited"
    /\ req[i].pc = "done"
    /\ req' = [req EXCEPT ![i] = IdleReq]
    /\ out' = [out EXCEPT ![WriterOf(i)] = <<>>]
    /\ arrived' = Without(arrived, i)
    /\ UNCHANGED lifeVars

\* handleDNSRequest called directly with message r
Invoke(r) ==
    /\ HandleBegin(1, "direct", r)
    /\ UNCHANGED lifeVars

----------------------------------------------------------------------------
(* Start, the listener tasks, Stop and main *)

\* Start binding the udp address itself and reporting the failure
StartResultBound(free) == IF free["udp"] THEN "nil" ELSE "bind error"

\* line 132: what Start returns
StartResult(free) == "nil"

\* a listener error that ends the process (log.Fatalf)
AfterListenErrorFatal(pc) == "exited"

\* lines 114-116 and 127-129: a listener error is logged and the task ends
AfterListenError(pc) == pc

ListenErrorEvent(n) == IF n = "udp" THEN "server error" ELSE "tcp server error"

\* whether transport n takes new messages
Accepting(n) ==
    /\ mainpc # "exited"
    /\ listener[n].task = "serving"
    /\ listener[n].started

\* lines 153-157 with Start, lines 97-133
MainStart ==
    /\ mainpc = "created"
    /\ server' = "udp"
    /\ listener' = [n \in Nets |-> [task |-> "spawned", started |-> FALSE]]
    /\ startErr' = StartResult(portFree)
    /\ IF startErr' # "nil"
       THEN /\ mainpc' = "fatal"
            /\ logged' = logged \cup {"starting", "start failed"}
       ELSE /\ mainpc' = "waiting"
            /\ logged' = logged \cup {"starting", "ready"}
    /\ UNCHANGED <<reqVars, gens, portFree, stopErr, signalled>>

\* the address of transport n is bound by a listener of an earlier Start
HeldByEarlier(n) == \E g \in 1 .. Len(gens) : gens[g][n].task = "serving"

\* the task of lines 113-117 (udp) or 126-130 (tcp) runs ListenAndServe
ListenAndServe(n) ==
    /\ mainpc \notin {"exited", "fatal"}
    /\ listener[n].task = "spawned"
    /\ IF portFree[n] /\ ~HeldByEarlier(n)
       THEN /\ listener' = [listener EXCEPT ![n] = [task |-> "serving", started |-> TRUE]]
            /\ UNCHANGED <<mainpc, logged>>
       ELSE /\ listener' = [listener EXCEPT ![n].task = "failed"]
            /\ logged' = logged \cup {ListenErrorEvent(n)}
            /\ mainpc' = AfterListenError(mainpc)
    /\ UNCHANGED <<reqVars, gens, server, portFree, startErr, stopErr, signalled>>

\* ListenAndServe returns an error while serving (lines 114-116, 127-129)
ServeError(n) ==
    /\ Accepting(n)
    /\ listener' = [listener EXCEPT ![n].task = "failed"]
    /\ logged' = logged \cup {ListenErrorEvent(n)}
    /\ mainpc' = AfterListenError(mainpc)
    /\ UNCHANGED <<reqVars, gens, server, portFree, startErr, stopErr, signalled>>

\* a listener hands an inbound message to the shared handler
Dispatch(i, n, r) ==
    /\ Accepting(n)
    /\ HandleBegin(i, n, r)
    /\ UNCHANGED lifeVars

\* lines 160-165: a termination signal arrives
Signal ==
    /\ mainpc = "waiting"
    /\ signalled' = TRUE
    /\ mainpc' = "signalled"
    /\ logged' = logged \cup {"signal received"}
    /\ UNCHANGED <<reqVars, gens, server, listener, portFree, startErr, stopErr>>

\* Stop shutting down both listeners
ShutdownBoth(l) == [n \in Nets |-> [l[n] EXCEPT !.started = FALSE]]

\* line 138: s.server.Shutdown() acts on the udp server alone
Shutdown(l) == [l EXCEPT !["udp"].started = FALSE]

\* an error from Stop ending the process at once (log.Fatalf)
AfterStopFatal(err) == IF err # "nil" THEN "exited" ELSE "grace"

\* lines 168-173: whatever Stop returned, main goes on to the grace period
AfterStop(err) == "grace"

\* lines 136-141: Stop up to the point where dns.Server.Shutdown waits
StopCall ==
    /\ IF server = "nil"
       THEN /\ stopErr' = "nil"
            /\ mainpc' = AfterStop("nil")
            /\ UNCHANGED <<listener, logged>>
       ELSE IF ~listener["udp"].started
            THEN /\ stopErr' = "server not started"
                 /\ mainpc' = AfterStop("server not started")
                 /\ logged' = logged \cup {"stop error"}
                 /\ UNCHANGED listener
            ELSE /\ listener' = Shutdown(listener)
                 /\ mainpc' = "stopping"
                 /\ UNCHANGED <<stopErr, logged>>
    /\ UNCHANGED <<reqVars, gens, server, portFree, startErr, signalled>>

\* line 168: main calls Stop
StopBegin ==
    /\ mainpc = "signalled"
    /\ StopCall

\* a handler invocation of the udp listener that has not written its reply
UdpInFlight == \E i \in Slots : req[i].via = "udp" /\ req[i].pc = "querying"

\* line 138: Shutdown returns once the udp listener has wound down
StopReturn ==
    /\ mainpc = "stopping"
    /\ ~UdpInFlight
    /\ listener' = [listener EXCEPT !["udp"].task =
                       IF @ = "serving" THEN "done" ELSE @]
    /\ stopErr' = "nil"
    /\ mainpc' = AfterStop("nil")
    /\ UNCHANGED <<reqVars, gens, server, portFree, startErr, signalled, logged>>

\* lines 173-175: the grace period ends and main returns
Exit ==
    /\ mainpc = "grace"
    /\ mainpc' = "exited"
    /\ logged' = logged \cup {"stopped"}
    /\ UNCHANGED <<reqVars, gens, server, listener, portFree, startErr, stopErr, signalled>>

----------------------------------------------------------------------------
(* Specifications *)

Init ==
    /\ req = [i \in Slots |-> IdleReq]
    /\ out = [i \in Slots |-> <<>>]
    /\ arrived = <<>>
    /\ gens = <<>>
    /\ mainpc = "created"
    /\ server = "nil"
    /\ listener = [n \in Nets |-> [task |-> "none", started |-> FALSE]]
    /\ portFree \in [Nets -> BOOLEAN]
    /\ startErr = "unset"
    /\ stopErr = "unset"
    /\ signalled = FALSE
    /\ logged = {}

Next ==
    \/ MainStart
    \/ \E n \in Nets : ListenAndServe(n)
    \/ \E n \in Nets : ServeError(n)
    \/ \E i \in Slots, n \in Nets, r \in WireQueries : Dispatch(i, n, r)
    \/ \E i \in Slots, o \in WireOutcomes, wfail \in BOOLEAN : HandleFinish(i, o, wfail)
    \/ \E i \in Slots : HandleReturn(i)
    \/ Signal
    \/ StopBegin
    \/ StopReturn
    \/ Exit

Spec == Init /\ [][Next]_vars

NextHandler ==
    \/ \E r \in Queries : Invoke(r)
    \/ \E o \in Outcomes, wfail \in BOOLEAN : HandleFinish(1, o, wfail)
    \/ HandleReturn(1)

\* the handler exercised on its own, with both addresses free to bind
InitHandler == Init /\ portFree = [n \in Nets |-> TRUE]

SpecHandler == InitHandler /\ [][NextHandler]_vars

----------------------------------------------------------------------------
(* The handler under concurrent direct calls, one writer per call *)

\* the answer section of the engine stub for request i: i records
AnswerOf(i) == [k \in 1 .. i |-> "rrA"]

\* the message of request i: its own transaction identifier
ConcQueries(i) ==
    {[NewMsg EXCEPT !.Id = i, !.RecursionDesired = TRUE, !.Question = qs] :
        qs \in SeqsUpTo(Questions, 1)}

\* what the engine stub returns for request i
ConcOutcomes(i) ==
    {[response |-> NilResponse, err |-> "ErrNoResult"],
     [response |-> [isNil |-> FALSE, Answer |-> AnswerOf(i), Ns |-> <<>>,
                    Extra |-> <<>>, Rcode |-> RcodeSuccess,
                    AuthenticatedData |-> FALSE, CheckingDisabled |-> FALSE],
      err |-> NoErr]}

\* handleDNSRequest called directly for request i
InvokeConc(i, r) ==
    /\ HandleBegin(i, "direct", r)
    /\ UNCHANGED lifeVars

\* the engine stub returns to request i
FinishConc(i) ==
    \E o \in ConcOutcomes(i), wfail \in BOOLEAN : HandleFinish(i, o, wfail)

NextConc ==
    \/ \E i \in Slots : \E r \in ConcQueries(i) : InvokeConc(i, r)
    \/ \E i \in Slots : FinishConc(i)
    \/ \E i \in Slots : HandleReturn(i)

SpecConc == InitHandler /\ [][NextConc]_vars

\* every request but the first has an engine call that returns
SpecConcFair ==
    SpecConc /\ \A i \in Slots \ {1} : WF_vars(FinishConc(i))

----------------------------------------------------------------------------
(* The process with main's own steps scheduled fairly *)

SpecFair ==
    Spec /\ WF_vars(StopBegin) /\ WF_vars(StopReturn) /\ WF_vars(Exit)

----------------------------------------------------------------------------
(* Start and Stop called in any order on one DNSServer *)

\* the Start calls made so far
Starts == Len(gens) + (IF server = "nil" THEN 0 ELSE 1)

\* lines 97-133: Start, called again or for the first time
ApiStart ==
    /\ mainpc \in {"created", "waiting", "grace"}
    /\ Starts < MaxStarts
    /\ gens' = IF server = "nil" THEN gens ELSE Append(gens, listener)
    /\ server' = "udp"
    /\ listener' = [n \in Nets |-> [task |-> "spawned", started |-> FALSE]]
    /\ startErr' = StartResult(portFree)
    /\ mainpc' = "waiting"
    /\ logged' = logged \cup {"starting"}
    /\ UNCHANGED <<reqVars, portFree, stopErr, signalled>>

\* lines 136-141: Stop, called before or after Start
ApiStop ==
    /\ mainpc \in {"created", "waiting", "grace"}
    /\ StopCall

\* the task of a listener that a later Start has replaced runs ListenAndServe
OrphanListen(g, n) ==
    /\ gens[g][n].task = "spawned"
    /\ IF /\ portFree[n]
          /\ listener[n].task # "serving"
          /\ \A h \in 1 .. Len(gens) : gens[h][n].task # "serving"
       THEN /\ gens' = [gens EXCEPT ![g][n] = [task |-> "serving", started |-> TRUE]]
            /\ UNCHANGED logged
       ELSE /\ gens' = [gens EXCEPT ![g][n].task = "failed"]
            /\ logged' = logged \cup {ListenErrorEvent(n)}
    /\ UNCHANGED <<reqVars, mainpc, server, listener, portFree, startErr,
                   stopErr, signalled>>

NextApi ==
    \/ ApiStart
    \/ ApiStop
    \/ StopReturn
    \/ \E n \in Nets : ListenAndServe(n)
    \/ \E g \in 1 .. Len(gens), n \in Nets : OrphanListen(g, n)

SpecApi == Init /\ [][NextApi]_vars

----------------------------------------------------------------------------
(* Properties of handleDNSRequest *)

Written(i) == req[i].pc = "done" /\ req[i].writes >= 1
NoSections(m) == m.Answer = <<>> /\ m.Ns = <<>> /\ m.Extra = <<>>
Failed(i) == req[i].pc = "done" /\ req[i].calls = 1 /\ req[i].err # NoErr
Succeeded(i) == req[i].pc = "done" /\ req[i].calls = 1 /\ req[i].err = NoErr

\* C1: a message with zero questions is answered with FormatError and empty
\* answer, authority and additional sections, and the engine is never called.
C1_ZeroQuestionFormatError ==
    \A i \in Slots :
        (req[i].pc = "done" /\ Len(req[i].r.Question) = 0) =>
            /\ req[i].writes = 1
            /\ req[i].reply.Rcode = 1
            /\ NoSections(req[i].reply)
            /\ req[i].calls = 0

C1_Witness ==
    \E i \in Slots :
        /\ req[i].pc = "done"
        /\ Len(req[i].r.Question) = 0
        /\ req[i].writes = 1
        /\ req[i].r.CheckingDisabled

\* C2: when the engine call fails, the reply's response code depends on the
\* error kind alone: NoResult, NoData -> NameError (3); InvalidQuery ->
\* FormatError (1); DNSSEC validation failed -> ServerFailure (2); any other
\* error -> ServerFailure (2).
C2_ErrorMapping ==
    \A i \in Slots :
        Failed(i) =>
            req[i].reply.Rcode =
                (IF req[i].err = "ErrNoResult" \/ req[i].err = "ErrNoData" THEN 3
                 ELSE IF req[i].err = "ErrInvalidQuery" THEN 1
                 ELSE 2)

C2_Witness ==
    \E i \in Slots :
        /\ Failed(i)
        /\ req[i].err = "ErrNoData"
        /\ req[i].response # NilResponse
        /\ req[i].response.Rcode = RcodeSuccess
        /\ req[i].reply.Rcode = RcodeNameError

\* C3: on success with an outcome, the reply's three sections, response code,
\* authenticated-data flag and checking-disabled flag are the outcome's; the
\* checking-disabled flag is the outcome's even when the query's differs.
C3_SuccessCopiesOutcome ==
    \A i \in Slots :
        (Succeeded(i) /\ req[i].response # NilResponse) =>
            /\ req[i].reply.Answer = req[i].response.Answer
            /\ req[i].reply.Ns = req[i].response.Ns
            /\ req[i].reply.Extra = req[i].response.Extra
            /\ req[i].reply.Rcode = req[i].response.Rcode
            /\ req[i].reply.AuthenticatedData = req[i].response.AuthenticatedData
            /\ req[i].reply.CheckingDisabled = req[i].response.CheckingDisabled

C3_Witness ==
    \E i \in Slots :
        /\ Succeeded(i)
        /\ req[i].response # NilResponse
        /\ req[i].r.Opcode = OpcodeQuery
        /\ req[i].r.CheckingDisabled
        /\ ~req[i].response.CheckingDisabled
        /\ req[i].response.Answer # <<>>
        /\ req[i].response.Rcode = RcodeNameError

\* C4: every reply handed to the writer, on every path, has
\* recursion-available set and compression enabled.
C4_RecursionAvailableAndCompress ==
    \A i \in Slots :
        Written(i) =>
            /\ req[i].reply.RecursionAvailable
            /\ req[i].reply.Compress

C4_Witness ==
    \E i \in Slots :
        /\ Written(i)
        /\ Failed(i)
        /\ req[i].reply.Rcode = RcodeServerFailure
        /\ req[i].reply.RecursionAvailable

\* C5: when the engine returns an error, the reply has empty answer,
\* authority and additional sections whatever came back with the error.
C5_FailureReplyHasNoSections ==
    \A i \in Slots : Failed(i) => NoSections(req[i].reply)

C5_Witness ==
    \E i \in Slots :
        /\ Failed(i)
        /\ req[i].response # NilResponse
        /\ req[i].response.Answer # <<>>
        /\ req[i].response.Ns # <<>>
        /\ req[i].response.Extra # <<>>

\* the query with everything after its first question removed
FirstOnly(r) == [r EXCEPT !.Question = <<r.Question[1]>>]

\* C6: with one or more questions the engine is called exactly once, with the
\* first question's name and type; the reply is the one the first question
\* alone would get; a failed resolution is not retried.
C6_FirstQuestionOnlyOnce ==
    \A i \in Slots :
        /\ req[i].calls <= 1
        /\ (req[i].pc # "idle" /\ Len(req[i].r.Question) >= 1) =>
              /\ req[i].calls = 1
              /\ req[i].qname = req[i].r.Question[1].Name
              /\ req[i].qtype = req[i].r.Question[1].Qtype
        /\ (req[i].pc = "done" /\ Len(req[i].r.Question) >= 1) =>
              /\ req[i].reply.Question = <<req[i].r.Question[1]>>
              /\ req[i].reply =
                    FinalReply(InitialReply(FirstOnly(req[i].r)), FirstOnly(req[i].r),
                               req[i].response, req[i].err)

C6_Witness ==
    \E i \in Slots :
        /\ Failed(i)
        /\ Len(req[i].r.Question) = 2
        /\ req[i].r.Question[1] # req[i].r.Question[2]
        /\ req[i].qname = "b.test."

\* C7 as stated: every reply carries the query's transaction identifier and
\* the query's whole question section.
C7_SameIdAndQuestionSection ==
    \A i \in Slots :
        Written(i) =>
            /\ req[i].reply.Id = req[i].r.Id
            /\ req[i].reply.Question = req[i].r.Question

\* C7 amended: every reply carries the query's transaction identifier and a
\* question section made of the query's first question alone (empty when the
\* query has none).
C7_SameIdAndFirstQuestion ==
    \A i \in Slots :
        Written(i) =>
            /\ req[i].reply.Id = req[i].r.Id
            /\ req[i].reply.Question =
                  (IF Len(req[i].r.Question) = 0 THEN <<>>
                   ELSE <<req[i].r.Question[1]>>)

C7_Witness ==
    \E i \in Slots :
        /\ Written(i)
        /\ Succeeded(i)
        /\ Len(req[i].r.Question) = 2
        /\ req[i].reply.Question # req[i].r.Question
        /\ req[i].reply.Id = 1

----------------------------------------------------------------------------
(* Properties of Start, Stop and the listener tasks *)

StopReturned == mainpc \in {"grace", "exited"}

\* a step in which the udp listener hands a new message to the handler
NewUdpRequest ==
    \E i \in Slots :
        /\ req[i].pc = "idle"
        /\ req'[i].pc # "idle"
        /\ req'[i].via = "udp"

\* C8: once Start has returned, Stop returns without error, and after Stop has
\* returned the packet-oriented listener accepts no new message, in every
\* interleaving with the listener's background task.
C8_StopCleanAndFinal ==
    /\ [](StopReturned => stopErr = "nil")
    /\ [][StopReturned => ~NewUdpRequest]_vars

\* C9: Start returns nil in every case, without waiting for a listener to be
\* ready or to fail, so main never takes its start-failure branch.
C9_StartNeverFails ==
    /\ [](mainpc # "created" => (startErr = "nil" /\ mainpc # "fatal"))
    /\ [][(mainpc = "created" /\ mainpc' # "created") =>
            \A n \in Nets : listener'[n].task = "spawned"]_vars

C9_Witness ==
    /\ mainpc = "waiting"
    /\ startErr = "nil"
    /\ \A n \in Nets : listener[n].task = "failed"

\* a step in which listener n fails
ListenerFails(n) == listener[n].task # "failed" /\ listener'[n].task = "failed"

\* C10: a listener's terminal failure is logged and ends only that listener's
\* task: the sibling listener, the requests in flight and main are left alone,
\* and the process exits only after a termination signal.
C10_ListenerFailureIsolated ==
    /\ [](\A n \in Nets :
            listener[n].task = "failed" => ListenErrorEvent(n) \in logged)
    /\ [](mainpc = "exited" => signalled)
    /\ [][\A n \in Nets :
            ListenerFails(n) =>
                /\ \A m \in Nets \ {n} : listener'[m] = listener[m]
                /\ mainpc' = mainpc
                /\ req' = req]_vars

C10_Witness ==
    /\ listener["udp"].task = "failed"
    /\ "server error" \in logged
    /\ Accepting("tcp")
    /\ ~signalled
    /\ \E i \in Slots : req[i].via = "tcp" /\ req[i].pc = "done" /\ ~req[i].werr

----------------------------------------------------------------------------
(* Properties of main's control loop, of the log and of the write *)

\* the steps main may take, as (position before, position after)
ControlOrder ==
    {<<"created", "waiting">>, <<"waiting", "signalled">>,
     <<"signalled", "stopping">>, <<"signalled", "grace">>,
     <<"stopping", "grace">>, <<"grace", "exited">>}

\* C11: main moves only from Start to the wait for a signal, to one call of
\* Stop, to the grace period, to exit; Stop is entered only after a signal,
\* and an error from Stop leads to the grace period like a clean return.
C11_ControlLoopOrder ==
    /\ [](mainpc \in {"stopping", "grace", "exited"} => signalled)
    /\ [](stopErr # "unset" => mainpc \in {"grace", "exited"})
    /\ []((mainpc = "exited") => "stopped" \in logged)
    /\ [][mainpc' # mainpc => <<mainpc, mainpc'>> \in ControlOrder]_vars

C11_Witness ==
    /\ mainpc = "exited"
    /\ stopErr = "server not started"
    /\ "stop error" \in logged
    /\ "stopped" \in logged

\* C13: on every path, a failed reply write is logged, is not retried, and the
\* handler returns.
C13_WriteFailureLogged ==
    \A i \in Slots :
        (req[i].pc = "done" /\ req[i].werr) =>
            /\ req[i].wlog
            /\ req[i].writes = 1

\* C14 as stated: one event per request when the write succeeds, two when it
\* fails, on every path.
C14_OneEventTwoOnWriteFailure ==
    \A i \in Slots :
        req[i].pc = "done" => req[i].nlog = (IF req[i].werr THEN 2 ELSE 1)

\* C14 amended: a zero-question request logs nothing; a request whose engine
\* call fails logs two events (query, resolution error); a request whose
\* engine call succeeds logs one event, and a second when its write fails.
C14_EventsPerPath ==
    \A i \in Slots :
        req[i].pc = "done" =>
            req[i].nlog =
                (IF Len(req[i].r.Question) = 0 THEN 0
                 ELSE IF req[i].err # NoErr THEN 2
                 ELSE IF req[i].werr THEN 2 ELSE 1)

C14_Witness ==
    \E i \in Slots :
        /\ Failed(i)
        /\ ~req[i].werr
        /\ req[i].nlog = 2

\* C15: Stop leaves the stream-oriented listener as it was: a tcp listener
\* serving when Stop is called is serving when Stop has returned.
C15_StopLeavesTcpAlone ==
    [][(mainpc \in {"signalled", "stopping"} /\ mainpc' # mainpc) =>
          /\ listener'["tcp"] = listener["tcp"]
          /\ (Accepting("tcp") => Accepting("tcp")')]_vars

C15_Witness ==
    /\ mainpc = "grace"
    /\ stopErr = "nil"
    /\ listener["udp"].task = "done"
    /\ Accepting("tcp")
    /\ \E i \in Slots : req[i].via = "tcp" /\ req[i].pc = "querying"

\* C19: an invocation that has got past the engine call, or that had no
\* question, has attempted exactly one write; one still inside the engine
\* call has attempted none.
C19_ExactlyOneWrite ==
    \A i \in Slots :
        /\ req[i].pc = "done" => req[i].writes = 1
        /\ req[i].pc = "querying" => req[i].writes = 0
        /\ Len(out[i]) <= 1

C19_Witness ==
    \E i \in Slots :
        /\ Failed(i)
        /\ req[i].writes = 1
        /\ Len(out[i]) = 1

NilOutcome(i) ==
    /\ req[i].pc = "done"
    /\ req[i].calls = 1
    /\ req[i].err = NoErr
    /\ req[i].response = NilResponse

\* C20 as stated: with no error and a nil outcome the reply has NoError, empty
\* sections, recursion-available set, authenticated-data clear, and the
\* query's checking-disabled flag.
C20_NilOutcomeReply ==
    \A i \in Slots :
        NilOutcome(i) =>
            /\ req[i].writes = 1
            /\ req[i].reply.Rcode = 0
            /\ NoSections(req[i].reply)
            /\ req[i].reply.RecursionAvailable
            /\ ~req[i].reply.AuthenticatedData
            /\ req[i].reply.CheckingDisabled = req[i].r.CheckingDisabled

\* C20 amended: as stated, except that the checking-disabled flag is the
\* query's only when the query's opcode is QUERY, and is clear otherwise.
C20_NilOutcomeReplyByOpcode ==
    \A i \in Slots :
        NilOutcome(i) =>
            /\ req[i].writes = 1
            /\ req[i].reply.Rcode = 0
            /\ NoSections(req[i].reply)
            /\ req[i].reply.RecursionAvailable
            /\ ~req[i].reply.AuthenticatedData
            /\ req[i].reply.CheckingDisabled =
                  (req[i].r.Opcode = 0 /\ req[i].r.CheckingDisabled)

C20_Witness ==
    \E i \in Slots :
        /\ NilOutcome(i)
        /\ req[i].r.Opcode = OpcodeQuery
        /\ req[i].r.CheckingDisabled
        /\ req[i].reply.CheckingDisabled

----------------------------------------------------------------------------
(* Properties of concurrent requests, of shutdown and of the lifecycle *)

\* C12: with N requests in the handler at once, each writer holds at most one
\* reply, and that reply carries its own request's identifier and question and
\* its own request's engine outcome.
C12_RepliesCorrelated ==
    \A i \in Slots :
        /\ Len(out[i]) <= 1
        /\ (req[i].pc = "done" /\ ~req[i].werr) => Len(out[i]) = 1
        /\ \A k \in 1 .. Len(out[i]) :
              /\ req[i].pc = "done"
              /\ out[i][k].Id = i
              /\ out[i][k] = req[i].reply
              /\ out[i][k].Question = req[i].r.Question
              /\ Succeeded(i) => out[i][k].Answer = AnswerOf(i)
              /\ Failed(i) => out[i][k].Rcode = RcodeNameError

C12_Witness ==
    /\ \A i \in Slots : Succeeded(i) /\ Len(out[i]) = 1
    /\ \A i \in Slots : out[i][1].Answer = AnswerOf(i)
    /\ Len(arrived) = NReq

\* the lifecycle state the position of the caller stands for: Created 0,
\* Started 1, Stopping 2, Stopped 3
LifecycleRank ==
    CASE mainpc = "created" -> 0
      [] mainpc \in {"waiting", "signalled"} -> 1
      [] mainpc = "stopping" -> 2
      [] OTHER -> 3

\* a udp listener of the latest or of an earlier Start is serving
UdpServing ==
    \/ listener["udp"].task = "serving"
    \/ \E g \in 1 .. Len(gens) : gens[g]["udp"].task = "serving"

\* C16: under any sequence of Start and Stop calls the lifecycle state only
\* moves forward, and once Stop has returned no udp listener of any earlier
\* Start is serving.
C16_LifecycleForwardOnly ==
    /\ [][LifecycleRank' >= LifecycleRank]_vars
    /\ [](mainpc = "grace" => ~UdpServing)

\* C17: once a termination signal has been delivered the process exits.
C17_SignalLeadsToExit == signalled ~> (mainpc = "exited")

\* C18: a request whose engine call has not returned has written nothing and
\* holds back no other request: every other request inside its engine call
\* gets to its write.
C18_StallIsLocal ==
    /\ [](\A i \in Slots :
            req[i].pc = "querying" => (req[i].writes = 0 /\ out[i] = <<>>))
    /\ \A i \in Slots \ {1} :
            (req[i].pc = "querying") ~> (req[i].pc = "done" /\ req[i].writes = 1)

C18_Witness ==
    /\ arrived = <<1, 2>>
    /\ req[1].pc = "querying"
    /\ out[1] = <<>>
    /\ req[2].pc = "done"
    /\ Len(out[2]) = 1

============================================================================
